---- MODULE Spec2Model ----
(***************************************************************************)
(* The invite-link lifecycle of the LinkVault bot: issuance through the    *)
(* deep-link start payload (handlers.handle_deep_link) and through the     *)
(* channel-list callback (handlers.generate_invite_link), the scheduled    *)
(* revocation (handlers.auto_revoke_and_delete), the hourly sweep          *)
(* (main.LinkVaultBot.cleanup_task, database.Database.cleanup_expired_     *)
(* links) and channel removal (handlers.remove_channel_command,            *)
(* database.Database.remove_channel).                                      *)
(*                                                                         *)
(* Handlers are coroutines: a handler runs alone between two awaits, and   *)
(* other handlers and background tasks run at its awaits.  Each action     *)
(* below is the piece of a handler around one await on shared state (the   *)
(* store, the chat platform's invites, the task list); the chat replies    *)
(* that follow it touch nothing shared and are part of the same action.    *)
(* Every store call and every chat-client call may fail (raise).           *)
(*                                                                         *)
(* Time is counted in ticks.  LINK_EXPIRY_MINUTES, CLEANUP_SLEEP and       *)
(* TEMP_LINK_REVOKE_SECONDS are the program's durations expressed in ticks.*)
(***************************************************************************)
EXTENDS Integers, Sequences, FiniteSets, TLC

\* ------------------------------------------------------------- bounds
MaxReq == 2      \* link requests (start payloads, channel selections) in one run
MaxAdm == 1      \* admin commands in one run
MaxTime == 4     \* clock horizon: the last clock value the model tracks
MaxDrift == 1    \* most ticks the clock advances between two reads in one step

\* -------------------------------------------------- program constants
LINK_EXPIRY_MINUTES == 2          \* Config.LINK_EXPIRY_MINUTES, in ticks
CLEANUP_SLEEP == 3                \* asyncio.sleep(3600) of cleanup_task, in ticks
TEMP_LINK_REVOKE_SECONDS == 2     \* Config.TEMP_LINK_REVOKE_SECONDS, in ticks
OWNER_ID == 1                     \* Config.OWNER_ID
ADMIN_IDS == {2}                  \* Config.ADMIN_IDS

\* ------------------------------------------------------------ inputs
CH == {-1, -2}                    \* channel identifiers (negative: supergroups)
UIDS == {1, 2, 3}                 \* owner, an admin, an ordinary user
Requesters == {3}                 \* users asking for links (the code never reads who)
Reqs == 1..MaxReq
Adms == 1..MaxAdm

VARIABLES
    now,        \* the clock (datetime.utcnow())
    channels,   \* db.channels: a set of Channel documents
    links,      \* db.links: a set of Link documents
    invites,    \* the chat platform's invite links: minted, revoked or not
    req,        \* the link requests: each handler's locals and position
    adm,        \* the admin commands: each handler's locals and position
    tasks,      \* the auto_revoke_and_delete tasks created with create_task
    sweeper,    \* cleanup_task: when its sleep ends, and its last pass
    users,      \* db.users: a set of User documents
    store,      \* how the store answers what the program leaves to it
    proc        \* the process: its settings, where main() is, what it has started

vars == <<now, channels, links, invites, req, adm, tasks, sweeper, users, store, proc>>

Min(a, b) == IF a < b THEN a ELSE b

\* ------------------------------------------------------------ config
\* The check with the admin list left out.
is_admin_owner_only(user_id) == user_id = OWNER_ID

\* The check turned around.
is_admin_inverted(user_id) == ~(user_id = OWNER_ID \/ user_id \in ADMIN_IDS)

is_admin(user_id) == user_id = OWNER_ID \/ user_id \in ADMIN_IDS

\* --------------------------------------------------- identifier codec
\* A deep-link payload: the mode tag and what follows it.  What follows is
\* the encoding of a channel identifier, or something else.
Tags == {"", "req_"}
encode_channel_id(channel_id) == <<"enc", channel_id>>
Payloads == [tag : Tags, body : {encode_channel_id(c) : c \in CH} \cup {<<"junk", 0>>}]
startswith_req(payload) == payload.tag = "req_"
\* decode of a string encode did not produce (the tag left on it included)
\* is invalid: 0, which the caller's `if not channel_id` rejects.
decode_channel_id(payload) ==
    IF payload.tag = "" /\ payload.body[1] = "enc" THEN payload.body[2] ELSE 0

\* ------------------------------------------------------------- store
NoDoc == [channel_id |-> 0]

\* A lookup that answers with a document for an identifier that has none.
find_channel_any(chs, channel_id) ==
    IF \E c \in chs : c.channel_id = channel_id
    THEN CHOOSE c \in chs : c.channel_id = channel_id
    ELSE [channel_id |-> channel_id, is_active |-> TRUE, total_joins |-> 0]

find_channel(chs, channel_id) ==
    IF \E c \in chs : c.channel_id = channel_id
    THEN CHOOSE c \in chs : c.channel_id = channel_id
    ELSE NoDoc

get_channel(channel_id) == find_channel(channels, channel_id)

\* The counter written back from a stale read instead of incremented in place.
inc_total_joins_stale(chs, channel_id) ==
    {IF c.channel_id = channel_id
     THEN [c EXCEPT !.total_joins = 1] ELSE c : c \in chs}

\* channels.update_one({"channel_id": id}, {"$inc": {"total_joins": 1}}):
\* one atomic update of the matching document, nothing when none matches.
inc_total_joins(chs, channel_id) ==
    {IF c.channel_id = channel_id
     THEN [c EXCEPT !.total_joins = c.total_joins + 1] ELSE c : c \in chs}

\* The document save_link builds.  created_at and expires_at come from two
\* reads of the clock: t1 the first, t2 the second.
link_data(channel_id, invite_link, link_type, t1, t2) ==
    [channel_id |-> channel_id, invite_link |-> invite_link,
     link_type |-> link_type, created_at |-> t1,
     expires_at |-> t2 + LINK_EXPIRY_MINUTES, uses |-> 0, is_active |-> TRUE]

\* The filter with is_active false added to it.
cleanup_expired_links_inactive(lks, t) ==
    {l \in lks : ~(l.expires_at < t /\ ~l.is_active)}

\* The filter with $lte in place of $lt.
cleanup_expired_links_lte(lks, t) == {l \in lks : ~(l.expires_at <= t)}

\* links.delete_many({"expires_at": {"$lt": t}}): what stays.
cleanup_expired_links(lks, t) == {l \in lks : ~(l.expires_at < t)}

\* db.get_stats: links.count_documents({"is_active": True, "expires_at":
\* {"$gt": utcnow}}), the documents it counts.
active_links(lks, t) == {l \in lks : l.is_active /\ l.expires_at > t}

\* db.get_active_link: links.find_one of the same filter within a channel,
\* the documents it may return.
get_active_link(lks, channel_id, t) ==
    {l \in active_links(lks, t) : l.channel_id = channel_id}

\* The cascade with its filter inverted.
delete_links_of_others(lks, channel_id) == {l \in lks : l.channel_id = channel_id}

\* links.delete_many({"channel_id": id}): what stays.
delete_links_of(lks, channel_id) == {l \in lks : l.channel_id # channel_id}

\* channels.delete_one({"channel_id": id}): what stays.  One document goes,
\* the one find_one would answer with.
delete_channel(chs, channel_id) == chs \ {find_channel(chs, channel_id)}

\* ------------------------------------------------------- store: users
\* The document add_user builds and hands to $set.
user_data(user_id, t) ==
    [user_id |-> user_id, joined_at |-> t, last_active |-> t,
     total_requests |-> 0, is_banned |-> FALSE]

\* How a store answers users.update_one({"user_id": id}, {"$set": user_data,
\* "$setOnInsert": {"joined_at": ...}}, upsert=True), where $set and
\* $setOnInsert both name joined_at: a MongoDB server rejects the update (a
\* path conflict), and add_user catches the error and returns False; a store
\* that accepts it writes every field of user_data, inserting the document
\* when there is none.
Answers == {"rejected", "applied"}

add_user(us, user_id, t, answer) ==
    IF answer = "applied"
    THEN {u \in us : u.user_id # user_id} \cup {user_data(user_id, t)}
    ELSE us

\* users.update_one({"user_id": id}, {"$set": {"last_active": now},
\* "$inc": {"total_requests": 1}}): no upsert, nothing when none matches.
update_last_active(us, user_id, t) ==
    {IF u.user_id = user_id
     THEN [u EXCEPT !.last_active = t, !.total_requests = u.total_requests + 1]
     ELSE u : u \in us}

\* ------------------------------------------------------ chat platform
\* create_chat_invite_link returns a fresh invite link: the link request r
\* mints is named r.
mint(r, channel_id, kind) ==
    [invite_link |-> r, channel_id |-> channel_id, kind |-> kind, revoked |-> FALSE]

\* ---------------------------------------------------------- requests
NoPayload == [tag |-> "", body |-> <<"none", 0>>]

Idle == [kind |-> "none", pc |-> "idle", uid |-> 0, payload |-> NoPayload,
         is_request_link |-> FALSE, channel_id |-> 0, invite_link |-> 0,
         result |-> "none", success_count |-> 0, failed_count |-> 0]

\* What the requester ends with when the reply that reports an outcome of
\* handle_deep_link fails: the outer handler's "An error occurred" reply; when
\* that fails too, start_command's "Something went wrong" reply; when that
\* fails too, nothing: the exception leaves the handler.
OuterChain == {"error_occurred", "something_wrong", "unhandled"}

\* A handler that has returned: its locals are gone; what is kept is which
\* handler it was, who sent the event and what the sender was left with.
Done(kind, uid, res) == [Idle EXCEPT !.kind = kind, !.uid = uid, !.pc = "done", !.result = res]

Finish(r, res) == req' = [req EXCEPT ![r] = Done(req[r].kind, req[r].uid, res)]

\* ------------------------------------------------------ main, config
\* The settings Config.validate requires.  Those read with int(...) in the
\* class body are absent, 0 or set; the strings are absent ("") or set.
IntKeys == {"API_ID", "OWNER_ID", "STORAGE_CHANNEL_ID"}
StrKeys == {"API_HASH", "BOT_TOKEN", "DATABASE_URL"}
Required == IntKeys \cup StrKeys
Envs ==
    {e \in [Required -> {"absent", "zero", "set"}] : \A k \in StrKeys : e[k] # "zero"}

\* missing = [key for key, value in required.items() if not value]
validate(env) == \A k \in Required : env[k] = "set"

\* The process once start_bot has reached idle().
Serving ==
    [env |-> [k \in Required |-> "set"], pc |-> "idle", db_initialized |-> TRUE,
     web_started |-> TRUE, client_started |-> TRUE, cleanup_created |-> TRUE,
     fault |-> "none"]

\* The process before config is imported.
Booting(env) ==
    [env |-> env, pc |-> "import", db_initialized |-> FALSE,
     web_started |-> FALSE, client_started |-> FALSE, cleanup_created |-> FALSE,
     fault |-> "none"]

InitChannels ==
    {chs \in SUBSET [channel_id : CH, is_active : BOOLEAN, total_joins : {0}] :
        \A c, d \in chs : c.channel_id = d.channel_id => c = d}

\* A new channel document, as db.add_channel builds it.
channel_data(channel_id) == [channel_id |-> channel_id, is_active |-> TRUE, total_joins |-> 0]

InitServing(chs, us, st) ==
    /\ now = 0
    /\ channels = chs
    /\ links = {}
    /\ invites = {}
    /\ req = [r \in Reqs |-> Idle]
    /\ adm = [a \in Adms |-> Idle]
    /\ tasks = {}
    /\ sweeper = [wake_at |-> CLEANUP_SLEEP, last_at |-> -1, deleted_count |-> 0]
    /\ users = us
    /\ store = st
    /\ proc = Serving

\* The unique indexes are there (initialize went through); add_user's update
\* is answered as given.
InitAnswered(chs, us, answer) ==
    InitServing(chs, us, [add_user |-> answer, unique_index |-> TRUE])

\* A run against a store that rejects add_user's update, as a MongoDB
\* server does.
InitStore(chs, us) == InitAnswered(chs, us, "rejected")

\* A run that starts with no User document.
InitWith(chs) == InitStore(chs, {})

\* The users collection the run starts with: empty, holding the document
\* of the ordinary user, or that and an admin's.
InitUsers == {{}, {user_data(3, 0)}, {user_data(2, 0), user_data(3, 0)}}

\* The registry the run starts with: any channels, active or not.
Init == \E chs \in InitChannels : InitWith(chs)

\* Every channel registered, as add_channel registers it.
InitRegistered == InitWith({channel_data(c) : c \in CH})

\* Requests take the slots in order: slot r is used once slot r-1 is.
Free(r) == req[r].pc = "idle" /\ (IF r = 1 THEN TRUE ELSE req[r - 1].pc # "idle")

\* What the requester ends with when issuance raises after the channel was
\* found: the "Failed to generate invite link" edit of the except branch,
\* and when that edit raises, what the enclosing handlers do.
FailChain(kind) ==
    IF kind = "deep" THEN {"failed_generate"} \cup OuterChain
    ELSE {"failed_generate", "unhandled"}

\* ---------------------------------------------- handlers.start_command
\* start_command with a payload, to the first await of handle_deep_link:
\* add_user (it catches what the store raises), update_last_active (it does
\* not: start_command's except branch answers), then the tag is read and
\* the payload handed to decode as it came.  The handler then waits on the
\* "Invalid link" reply or on get_channel.
\* The payload cut short on its way to decode.
decode_argument_cut(payload) == [payload EXCEPT !.body = <<"junk", 0>>]

decode_argument(payload) == payload

start_command(r) ==
    /\ Free(r)
    /\ \E payload \in Payloads, uid \in Requesters :
        LET is_request_link == startswith_req(payload)
            channel_id == decode_channel_id(decode_argument(payload))
            added == add_user(users, uid, now, store.add_user)
            me == [Idle EXCEPT !.kind = "deep", !.uid = uid, !.payload = payload,
                               !.is_request_link = is_request_link,
                               !.channel_id = channel_id]
        IN  \/ /\ users' = added                      \* update_last_active raises
               /\ \E res \in {"something_wrong", "unhandled"} :
                     req' = [req EXCEPT ![r] = Done("deep", uid, res)]
            \/ /\ users' = update_last_active(added, uid, now)
               /\ req' = [req EXCEPT ![r] =
                     [me EXCEPT !.pc = IF channel_id = 0 THEN "reply" ELSE "lookup"]]
    /\ UNCHANGED <<now, channels, links, invites, adm, tasks, sweeper, store, proc>>

\* ------------------------------------------- handlers.handle_deep_link
\* The reply without the return that follows it.
reply_invalid_no_return(r) ==
    /\ req[r].pc = "reply"
    /\ req' = [req EXCEPT ![r].pc = "lookup"]
    /\ UNCHANGED <<now, channels, links, invites, adm, tasks, sweeper, users, store, proc>>

\* The reply to a payload that did not decode.
reply_invalid(r) ==
    /\ req[r].pc = "reply"
    /\ \E res \in {"invalid_link"} \cup OuterChain : Finish(r, res)
    /\ UNCHANGED <<now, channels, links, invites, adm, tasks, sweeper, users, store, proc>>

\* get_channel and the "Generating your invite link" reply.  The channel
\* document is read for the reply text only; the payload is not read again.
handle_deep_link(r) ==
    /\ req[r].pc = "lookup"
    /\ LET channel == get_channel(req[r].channel_id)
       IN  \/ \E res \in OuterChain : Finish(r, res)      \* get_channel raises
           \/ /\ channel = NoDoc                          \* if not channel
              /\ \E res \in {"not_found"} \cup OuterChain : Finish(r, res)
           \/ /\ channel # NoDoc                          \* the status_msg reply raises
              /\ \E res \in OuterChain : Finish(r, res)
           \/ /\ channel # NoDoc
              /\ req' = [req EXCEPT ![r].pc = "mint", ![r].payload = NoPayload]
    /\ UNCHANGED <<now, channels, links, invites, adm, tasks, sweeper, users, store, proc>>

\* ------------------------------------------ handlers.callback_handler
\* The "channel_<id>" branch, to callback.answer in generate_invite_link:
\* update_last_active, get_channel, the answer.  callback_handler has no
\* try: what raises in it leaves it.  generate_invite_link has one, whose
\* except branch edits the message to "Failed to generate invite link".
callback_handler(r) ==
    /\ Free(r)
    /\ \E channel_id \in CH, uid \in Requesters :
        LET channel == get_channel(channel_id)
            me == [Idle EXCEPT !.kind = "cb", !.uid = uid, !.channel_id = channel_id]
            End(res) == req' = [req EXCEPT ![r] = Done("cb", uid, res)]
        IN  \/ /\ End("unhandled")                     \* update_last_active raises
               /\ users' = users
            \/ /\ users' = update_last_active(users, uid, now)
               /\ \/ End("unhandled")                  \* get_channel raises
                  \/ /\ channel = NoDoc                \* if not channel
                     /\ \E res \in {"not_found", "unhandled"} : End(res)
                  \/ /\ channel # NoDoc                \* callback.answer raises
                     /\ \E res \in FailChain("cb") : End(res)
                  \/ /\ channel # NoDoc
                     /\ req' = [req EXCEPT ![r] = [me EXCEPT !.pc = "mint"]]
    /\ UNCHANGED <<now, channels, links, invites, adm, tasks, sweeper, store, proc>>

\* The issuance with the counter incremented before the invite is asked for.
create_chat_invite_link_counted(r) ==
    /\ req[r].pc = "mint"
    /\ channels' = inc_total_joins(channels, req[r].channel_id)
    /\ \/ /\ \E res \in FailChain(req[r].kind) : Finish(r, res)
          /\ UNCHANGED invites
       \/ /\ invites' = invites \cup
                {mint(r, req[r].channel_id,
                      IF req[r].is_request_link THEN "join_request" ELSE "single_use")}
          /\ req' = [req EXCEPT ![r].pc = "save", ![r].invite_link = r]
    /\ UNCHANGED <<now, links, adm, tasks, sweeper, users, store, proc>>

\* client.create_chat_invite_link in handle_deep_link and in
\* generate_invite_link: approval-gated for a req_ payload, single-use
\* otherwise.  When it raises, the except branch reports the failure.
create_chat_invite_link(r) ==
    /\ req[r].pc = "mint"
    /\ \/ /\ \E res \in FailChain(req[r].kind) : Finish(r, res)
          /\ UNCHANGED invites
       \/ /\ invites' = invites \cup
                {mint(r, req[r].channel_id,
                      IF req[r].is_request_link THEN "join_request" ELSE "single_use")}
          /\ req' = [req EXCEPT ![r].pc = "save", ![r].invite_link = r]
    /\ UNCHANGED <<now, channels, links, adm, tasks, sweeper, users, store, proc>>

link_type_of(r) ==
    IF req[r].kind = "deep" /\ req[r].is_request_link THEN "request" ELSE "invite"

\* db.save_link: never raises; its result is not read by the callers.  The
\* clock is read twice and may advance by d between the reads.
save_link(r) ==
    /\ req[r].pc = "save"
    /\ \E d \in 0..MaxDrift :
        /\ now + d + LINK_EXPIRY_MINUTES < MaxTime
        /\ now' = now + d
        /\ \/ links' = links \cup
                    {link_data(req[r].channel_id, req[r].invite_link,
                               link_type_of(r), now, now + d)}
           \/ /\ d = 0                                 \* insert_one raises
              /\ links' = links
    /\ req' = [req EXCEPT ![r].pc = "inc"]
    /\ UNCHANGED <<channels, invites, adm, tasks, sweeper, users, store, proc>>

new_task(channel_id, invite_link, delay_seconds) ==
    [channel_id |-> channel_id, invite_link |-> invite_link,
     due |-> now + delay_seconds, state |-> "sleeping",
     revoke_calls |-> 0, revoked_at |-> -1, link_present |-> FALSE, delete_calls |-> 0,
     message |-> "shown"]

\* db.increment_channel_joins (it raises when the store does) and the rest
\* of the handler: the edit that shows the link and, in handle_deep_link,
\* asyncio.create_task(auto_revoke_and_delete(...)).
increment_channel_joins(r) ==
    /\ req[r].pc = "inc"
    /\ \/ /\ \E res \in FailChain(req[r].kind) : Finish(r, res)   \* the increment raises
          /\ UNCHANGED <<channels, tasks>>
       \/ /\ channels' = inc_total_joins(channels, req[r].channel_id)
          /\ \E res \in FailChain(req[r].kind) : Finish(r, res)   \* the edit raises
          /\ UNCHANGED tasks
       \/ /\ channels' = inc_total_joins(channels, req[r].channel_id)
          /\ req[r].kind = "deep"
          /\ now + TEMP_LINK_REVOKE_SECONDS <= MaxTime
          /\ tasks' = tasks \cup
                {new_task(req[r].channel_id, req[r].invite_link, TEMP_LINK_REVOKE_SECONDS)}
          /\ Finish(r, "link_sent")
       \/ /\ channels' = inc_total_joins(channels, req[r].channel_id)
          /\ req[r].kind = "cb"
          /\ UNCHANGED tasks
          /\ Finish(r, "link_sent")
    /\ UNCHANGED <<now, links, invites, adm, sweeper, users, store, proc>>

\* ------------------------------------- handlers.auto_revoke_and_delete
revoke(invs, invite_link) ==
    {IF i.invite_link = invite_link THEN [i EXCEPT !.revoked = TRUE] ELSE i : i \in invs}

\* The task without its sleep.
auto_revoke_no_sleep(t) ==
    /\ t.state = "sleeping"
    /\ \E revoke_ok, delete_ok \in BOOLEAN :
        /\ invites' = IF revoke_ok THEN revoke(invites, t.invite_link) ELSE invites
        /\ tasks' = (tasks \ {t}) \cup
              {[t EXCEPT !.state = "done", !.revoke_calls = t.revoke_calls + 1,
                         !.revoked_at = now,
                         !.link_present = \E l \in links : l.invite_link = t.invite_link,
                         !.delete_calls = t.delete_calls + 1,
                         !.message = IF delete_ok THEN "deleted" ELSE "shown"]}
    /\ UNCHANGED <<now, channels, links, req, adm, sweeper, users, store, proc>>

\* The task with one try around both calls: a revoke that raises skips the
\* delete.
auto_revoke_one_try(t) ==
    /\ t.state = "sleeping"
    /\ now >= t.due
    /\ \E revoke_ok, delete_ok \in BOOLEAN :
        /\ invites' = IF revoke_ok THEN revoke(invites, t.invite_link) ELSE invites
        /\ tasks' = (tasks \ {t}) \cup
              {[t EXCEPT !.state = "done", !.revoke_calls = t.revoke_calls + 1,
                         !.revoked_at = now,
                         !.link_present = \E l \in links : l.invite_link = t.invite_link,
                         !.delete_calls = IF revoke_ok THEN t.delete_calls + 1 ELSE t.delete_calls,
                         !.message = IF revoke_ok /\ delete_ok THEN "deleted" ELSE "shown"]}
    /\ UNCHANGED <<now, channels, links, req, adm, sweeper, users, store, proc>>

\* The sleep ends; the revoke is attempted, then the delete of the message,
\* each in a try of its own.  revoke_calls and delete_calls count the calls
\* made; revoked_at and link_present record when the revoke was called and
\* whether the Link document was still in the store then; message is the
\* message that shows the link, deleted when message.delete() went through.
auto_revoke_and_delete(t) ==
    /\ t.state = "sleeping"
    /\ now >= t.due                                    \* asyncio.sleep(delay_seconds)
    /\ \E revoke_ok, delete_ok \in BOOLEAN :
        /\ invites' = IF revoke_ok THEN revoke(invites, t.invite_link) ELSE invites
        /\ tasks' = (tasks \ {t}) \cup
              {[t EXCEPT !.state = "done", !.revoke_calls = t.revoke_calls + 1,
                         !.revoked_at = now,
                         !.link_present = \E l \in links : l.invite_link = t.invite_link,
                         !.delete_calls = t.delete_calls + 1,
                         !.message = IF delete_ok THEN "deleted" ELSE "shown"]}
    /\ UNCHANGED <<now, channels, links, req, adm, sweeper, users, store, proc>>

\* -------------------------------------- main.LinkVaultBot.cleanup_task
\* The loop without its try: a pass that fails ends the sweeper.
cleanup_turn_no_try(ok) ==
    /\ now >= sweeper.wake_at
    /\ links' = IF ok THEN cleanup_expired_links(links, now) ELSE links
    /\ sweeper' = [wake_at |-> IF ok THEN Min(now + CLEANUP_SLEEP, MaxTime) ELSE MaxTime + 1,
                   last_at |-> now,
                   deleted_count |-> Cardinality(links \ links')]
    /\ UNCHANGED <<now, channels, invites, req, adm, tasks, users, store, proc>>

\* One turn of the loop: the sleep ends, cleanup_expired_links runs (it
\* catches what the store raises: ok is whether delete_many went through),
\* the next sleep starts.  last_at and deleted_count record the pass.
cleanup_turn(ok) ==
    /\ now >= sweeper.wake_at
    /\ links' = IF ok THEN cleanup_expired_links(links, now) ELSE links
    /\ sweeper' = [wake_at |-> Min(now + CLEANUP_SLEEP, MaxTime), last_at |-> now,
                   deleted_count |-> Cardinality(links \ links')]
    /\ UNCHANGED <<now, channels, invites, req, adm, tasks, users, store, proc>>

cleanup_task == \E ok \in BOOLEAN : cleanup_turn(ok)

\* ---------------------------------- handlers.remove_channel_command
Args == {[kind |-> "missing", value |-> 0], [kind |-> "nan", value |-> 0]}
            \cup {[kind |-> "num", value |-> c] : c \in CH}

FreeAdm(a) == adm[a].pc = "idle" /\ (IF a = 1 THEN TRUE ELSE adm[a - 1].pc # "idle")

\* To the end of channels.delete_one in db.remove_channel.
remove_channel_command(a) ==
    /\ FreeAdm(a)
    /\ \E uid \in UIDS, arg \in Args :
        LET me == [Idle EXCEPT !.kind = "rm", !.uid = uid, !.channel_id = arg.value]
            End(res) == adm' = [adm EXCEPT ![a] = Done("rm", uid, res)]
        IN  \/ /\ ~is_admin(uid)
               /\ \E res \in {"denied", "unhandled"} : End(res)
               /\ UNCHANGED channels
            \/ /\ is_admin(uid) /\ arg.kind = "missing"
               /\ \E res \in {"usage", "unhandled"} : End(res)
               /\ UNCHANGED channels
            \/ /\ is_admin(uid) /\ arg.kind = "nan"
               /\ \E res \in {"invalid_id", "unhandled"} : End(res)
               /\ UNCHANGED channels
            \/ /\ is_admin(uid) /\ arg.kind = "num"    \* delete_one raises, or deletes nothing
               /\ \E res \in {"not_found_or_failed", "unhandled"} : End(res)
               /\ UNCHANGED channels
            \/ /\ is_admin(uid) /\ arg.kind = "num"
               /\ get_channel(arg.value) # NoDoc       \* deleted_count > 0
               /\ channels' = delete_channel(channels, arg.value)
               /\ adm' = [adm EXCEPT ![a] = [me EXCEPT !.pc = "rm_links"]]
    /\ UNCHANGED <<now, links, invites, req, tasks, sweeper, users, store, proc>>

\* links.delete_many of db.remove_channel, and the reply.
remove_channel_links(a) ==
    /\ adm[a].pc = "rm_links"
    /\ \/ /\ links' = delete_links_of(links, adm[a].channel_id)
          /\ \E res \in {"removed", "unhandled"} :
                adm' = [adm EXCEPT ![a] = Done("rm", adm[a].uid, res)]
       \/ /\ links' = links                            \* delete_many raises
          /\ \E res \in {"not_found_or_failed", "unhandled"} :
                adm' = [adm EXCEPT ![a] = Done("rm", adm[a].uid, res)]
    /\ UNCHANGED <<now, channels, invites, req, tasks, sweeper, users, store, proc>>

\* ------------------------------------------------ handlers.add_channel
\* The command without the ValueError branch: whatever the argument is
\* goes on to get_chat.
add_channel_unparsed(a) ==
    /\ FreeAdm(a)
    /\ \E uid \in UIDS, arg \in Args :
        LET me == [Idle EXCEPT !.kind = "add", !.uid = uid, !.channel_id = arg.value]
            End(res) == adm' = [adm EXCEPT ![a] = Done("add", uid, res)]
        IN  \/ /\ ~is_admin(uid)
               /\ \E res \in {"denied", "unhandled"} : End(res)
            \/ /\ is_admin(uid) /\ arg.kind = "missing"
               /\ \E res \in {"usage", "unhandled"} : End(res)
            \/ /\ is_admin(uid) /\ arg.kind # "missing"
               /\ adm' = [adm EXCEPT ![a] = [me EXCEPT !.pc = "get_chat"]]
    /\ UNCHANGED <<now, channels, links, invites, req, tasks, sweeper, users, store, proc>>

\* The addchannel command to the "Please wait" reply: the check, the
\* argument.  No try surrounds this part.
add_channel(a) ==
    /\ FreeAdm(a)
    /\ \E uid \in UIDS, arg \in Args :
        LET me == [Idle EXCEPT !.kind = "add", !.uid = uid, !.channel_id = arg.value]
            End(res) == adm' = [adm EXCEPT ![a] = Done("add", uid, res)]
        IN  \/ /\ ~is_admin(uid)
               /\ \E res \in {"denied", "unhandled"} : End(res)
            \/ /\ is_admin(uid) /\ arg.kind = "missing"
               /\ \E res \in {"usage", "unhandled"} : End(res)
            \/ /\ is_admin(uid) /\ arg.kind = "nan"
               /\ \E res \in {"invalid_id", "unhandled"} : End(res)
            \/ /\ is_admin(uid) /\ arg.kind = "num"    \* the status_msg reply raises
               /\ End("unhandled")
            \/ /\ is_admin(uid) /\ arg.kind = "num"
               /\ adm' = [adm EXCEPT ![a] = [me EXCEPT !.pc = "get_chat"]]
    /\ UNCHANGED <<now, channels, links, invites, req, tasks, sweeper, users, store, proc>>

\* client.get_chat, export_chat_invite_link (its failure is ignored),
\* db.add_channel and the reply with the deep links.  db.add_channel returns
\* False when insert_one raises: the identifier is there already and the
\* unique index of initialize is in place, or the store fails.  What raises elsewhere is answered by the
\* except branch with "Failed to add channel", also after the insert.
add_channel_insert(a) ==
    /\ adm[a].pc = "get_chat"
    /\ LET channel_id == adm[a].channel_id
           End(res) == adm' = [adm EXCEPT ![a] = Done("add", adm[a].uid, res)]
       IN  \/ /\ \E res \in {"failed_add", "unhandled"} : End(res)   \* get_chat raises
              /\ UNCHANGED channels
           \/ /\ \E res \in {"exists_or_failed", "failed_add", "unhandled"} : End(res)
              /\ UNCHANGED channels                    \* insert_one raises
           \/ /\ store.unique_index => get_channel(channel_id) = NoDoc
              /\ channels' = channels \cup {channel_data(channel_id)}
              /\ \E res \in {"added", "failed_add", "unhandled"} : End(res)
    /\ UNCHANGED <<now, links, invites, req, tasks, sweeper, users, store, proc>>

\* -------------------------------------------- handlers.broadcast_command
\* The loop stopped by the first copy that raises.
copy_counts_break(all_users, failed) ==
    IF failed = {}
    THEN [success_count |-> Cardinality(all_users), failed_count |-> 0]
    ELSE [success_count |-> 0, failed_count |-> 1]

\* The loop over all_users: a copy to each, in a try of its own, counted
\* in success_count or in failed_count.  failed: the users whose copy raised.
copy_counts(all_users, failed) ==
    [success_count |-> Cardinality(all_users \ failed),
     failed_count |-> Cardinality(failed)]

\* The check, the replied-to message, the "Starting broadcast" reply,
\* users.find, the copies and the report.  No try surrounds the command;
\* each copy has its own.  The report is the edit of the status message.
broadcast_command(a) ==
    /\ FreeAdm(a)
    /\ \E uid \in UIDS, has_reply \in BOOLEAN :
        LET End(res) == adm' = [adm EXCEPT ![a] = Done("broadcast", uid, res)]
            all_users == {u.user_id : u \in users}
        IN  \/ /\ ~is_admin(uid)
               /\ \E res \in {"denied", "unhandled"} : End(res)
            \/ /\ is_admin(uid) /\ ~has_reply
               /\ \E res \in {"reply_needed", "unhandled"} : End(res)
            \/ /\ is_admin(uid) /\ has_reply       \* the reply, find or the edit raises
               /\ End("unhandled")
            \/ /\ is_admin(uid) /\ has_reply
               /\ \E failed \in SUBSET all_users :
                     LET n == copy_counts(all_users, failed)
                     IN  adm' = [adm EXCEPT ![a] =
                            [Done("broadcast", uid, "broadcast_done") EXCEPT
                                !.success_count = n.success_count,
                                !.failed_count = n.failed_count]]
    /\ UNCHANGED <<now, channels, links, invites, req, tasks, sweeper, users, store, proc>>

\* ----------------- handlers.callback_handler: admin_panel, admin_stats
\* update_last_active comes first, for every callback; then the check.
admin_callback(a) ==
    /\ FreeAdm(a)
    /\ \E uid \in UIDS, data \in {"admin_panel", "admin_stats"} :
        LET End(res) == adm' = [adm EXCEPT ![a] = Done(data, uid, res)]
        IN  \/ /\ End("unhandled")                     \* update_last_active raises
               /\ users' = users
            \/ /\ users' = update_last_active(users, uid, now)
               /\ \/ /\ ~is_admin(uid)
                     /\ \E res \in {"denied", "unhandled"} : End(res)
                  \/ /\ is_admin(uid)
                     /\ \E res \in {"shown", "unhandled"} : End(res)
    /\ UNCHANGED <<now, channels, links, invites, req, tasks, sweeper, store, proc>>

\* ------------------------------------------------ user interactions
\* get_all_channels: the active channels.
get_all_channels(chs) == {ch \in chs : ch.is_active}

\* start_command without a payload, to its second await: add_user, which
\* catches what the store raises.
start_add_user(r) ==
    /\ Free(r)
    /\ \E uid \in UIDS :
        /\ users' = add_user(users, uid, now, store.add_user)
        /\ req' = [req EXCEPT ![r] = [Idle EXCEPT !.kind = "start", !.uid = uid, !.pc = "touch"]]
    /\ UNCHANGED <<now, channels, links, invites, adm, tasks, sweeper, store, proc>>

\* The rest of it: update_last_active, then the welcome reply; the except
\* branch answers "Something went wrong" to whatever raises.
start_welcome(r) ==
    /\ req[r].pc = "touch"
    /\ \/ /\ users' = users                       \* update_last_active raises
          /\ \E res \in {"something_wrong", "unhandled"} : Finish(r, res)
       \/ /\ users' = update_last_active(users, req[r].uid, now)
          /\ \E res \in {"welcome", "something_wrong", "unhandled"} : Finish(r, res)
    /\ UNCHANGED <<now, channels, links, invites, adm, tasks, sweeper, store, proc>>

\* help_command, stats_command, channels_command: update_last_active, what
\* the command reads, the reply.  None has a try.
Commands == {"help", "stats", "channels"}

user_command(r) ==
    /\ Free(r)
    /\ \E kind \in Commands, uid \in UIDS :
        LET End(res) == req' = [req EXCEPT ![r] = Done(kind, uid, res)]
        IN  \/ /\ users' = users                  \* update_last_active raises
               /\ End("unhandled")
            \/ /\ users' = update_last_active(users, uid, now)
               /\ \/ End("unhandled")             \* the read or the reply raises
                  \/ /\ kind = "channels" /\ get_all_channels(channels) = {}
                     /\ End("no_channels")
                  \/ /\ kind = "channels" => get_all_channels(channels) # {}
                     /\ End("shown")
    /\ UNCHANGED <<now, channels, links, invites, adm, tasks, sweeper, store, proc>>

\* callback_handler's branches that show a menu, a page or nothing:
\* update_last_active, then the branch.
MenuData == {"start", "help", "stats", "get_links", "page_", "close", "noop", "other"}

menu_callback(r) ==
    /\ Free(r)
    /\ \E data \in MenuData, uid \in UIDS :
        LET End(res) == req' = [req EXCEPT ![r] = Done("menu", uid, res)]
        IN  \/ /\ users' = users                  \* update_last_active raises
               /\ End("unhandled")
            \/ /\ users' = update_last_active(users, uid, now)
               /\ \/ End("unhandled")             \* the read, edit or answer raises
                  \/ /\ data = "get_links" /\ get_all_channels(channels) = {}
                     /\ End("no_channels")
                  \/ /\ data = "get_links" => get_all_channels(channels) # {}
                     /\ End("shown")
    /\ UNCHANGED <<now, channels, links, invites, adm, tasks, sweeper, store, proc>>

\* db.ban_user: users.update_one({"user_id": id}, {"$set": {"is_banned":
\* banned}}), no upsert.  No handler calls it; whoever operates the bot does.
set_is_banned(us, user_id, banned) ==
    {IF u.user_id = user_id THEN [u EXCEPT !.is_banned = banned] ELSE u : u \in us}

ban_user ==
    /\ \E user_id \in UIDS, banned \in BOOLEAN :
          users' = set_is_banned(users, user_id, banned)
    /\ UNCHANGED <<now, channels, links, invites, req, adm, tasks, sweeper, store, proc>>

\* ------------------------------------------------------------ startup
\* import config: the class body runs int(os.environ.get(KEY, "")), which
\* raises ValueError on an absent setting, before main() is entered.
load_config ==
    /\ proc.pc = "import"
    /\ proc' = IF \E k \in IntKeys : proc.env[k] = "absent"
               THEN [proc EXCEPT !.pc = "exited", !.fault = "ValueError"]
               ELSE [proc EXCEPT !.pc = "start_bot"]
    /\ UNCHANGED <<now, channels, links, invites, req, adm, tasks, sweeper, users, store>>

\* start_bot to its first await: Config.validate, and the return when it is
\* false, which takes main() to its finally.
start_bot ==
    /\ proc.pc = "start_bot"
    /\ proc' = [proc EXCEPT !.pc = IF validate(proc.env) THEN "initialize" ELSE "stop_bot"]
    /\ UNCHANGED <<now, channels, links, invites, req, adm, tasks, sweeper, users, store>>

\* db.initialize: the indexes are created, or create_index raises, which
\* initialize logs and swallows.
db_initialize ==
    /\ proc.pc = "initialize"
    /\ \E ok \in BOOLEAN : store' = [store EXCEPT !.unique_index = ok]
    /\ proc' = [proc EXCEPT !.pc = "web", !.db_initialized = TRUE]
    /\ UNCHANGED <<now, channels, links, invites, req, adm, tasks, sweeper, users>>

\* start_web_server; what it raises is caught by main()'s except.
start_web_server ==
    /\ proc.pc = "web"
    /\ \/ proc' = [proc EXCEPT !.pc = "app_start", !.web_started = TRUE]
       \/ proc' = [proc EXCEPT !.pc = "stop_bot"]
    /\ UNCHANGED <<now, channels, links, invites, req, adm, tasks, sweeper, users, store>>

\* self.app.start()
app_start ==
    /\ proc.pc = "app_start"
    /\ \/ proc' = [proc EXCEPT !.pc = "get_me", !.client_started = TRUE]
       \/ proc' = [proc EXCEPT !.pc = "stop_bot"]
    /\ UNCHANGED <<now, channels, links, invites, req, adm, tasks, sweeper, users, store>>

\* get_me, then asyncio.create_task(self.cleanup_task()) and idle().
create_cleanup_task ==
    /\ proc.pc = "get_me"
    /\ \/ proc' = [proc EXCEPT !.pc = "idle", !.cleanup_created = TRUE]
       \/ proc' = [proc EXCEPT !.pc = "stop_bot"]
    /\ UNCHANGED <<now, channels, links, invites, req, adm, tasks, sweeper, users, store>>

\* idle() returns on a signal.
idle ==
    /\ proc.pc = "idle"
    /\ proc' = [proc EXCEPT !.pc = "stop_bot"]
    /\ UNCHANGED <<now, channels, links, invites, req, adm, tasks, sweeper, users, store>>

\* main()'s finally: stop_bot awaits self.app.stop() with no try.  On a
\* client that was never started stop() raises ConnectionError.
stop_bot ==
    /\ proc.pc = "stop_bot"
    /\ IF proc.client_started
       THEN \/ proc' = [proc EXCEPT !.pc = "exited", !.client_started = FALSE]
            \/ proc' = [proc EXCEPT !.pc = "exited", !.fault = "stop_raised"]
       ELSE proc' = [proc EXCEPT !.pc = "exited", !.fault = "ConnectionError"]
    /\ UNCHANGED <<now, channels, links, invites, req, adm, tasks, sweeper, users, store>>

\* ------------------------------------------------------------- clock
Tick ==
    /\ now < MaxTime
    /\ now' = now + 1
    /\ UNCHANGED <<channels, links, invites, req, adm, tasks, sweeper, users, store, proc>>

NextIssue ==
    \E r \in Reqs :
        \/ start_command(r)
        \/ reply_invalid(r)
        \/ handle_deep_link(r)
        \/ callback_handler(r)
        \/ create_chat_invite_link(r)
        \/ save_link(r)
        \/ increment_channel_joins(r)

NextAdmin ==
    \E a \in Adms :
        \/ remove_channel_command(a)
        \/ remove_channel_links(a)

NextTimed ==
    \/ \E t \in tasks : auto_revoke_and_delete(t)
    \/ cleanup_task
    \/ Tick

\* Link requests handled within one tick of the clock.
Spec == Init /\ [][NextIssue]_vars

\* Link requests and admin commands handled within one tick of the clock.
SpecAdmin == InitRegistered /\ [][NextIssue \/ NextAdmin]_vars

\* The admin actions, on any registry, with or without a User document,
\* with or without the unique index on channels.channel_id.
NextRegistry ==
    \E a \in Adms :
        \/ add_channel(a)
        \/ add_channel_insert(a)
        \/ remove_channel_command(a)
        \/ remove_channel_links(a)
        \/ broadcast_command(a)
        \/ admin_callback(a)

SpecRegistry ==
    /\ \E chs \in InitChannels, us \in InitUsers, idx \in BOOLEAN :
          InitServing(chs, us, [add_user |-> "rejected", unique_index |-> idx])
    /\ [][NextRegistry]_vars

\* What users do as time passes, against a store that answers add_user's
\* update one way or the other, with or without a User document, with no
\* channel or with every channel registered.
NextUsers ==
    \/ \E r \in Reqs :
        \/ start_add_user(r)
        \/ start_welcome(r)
        \/ user_command(r)
        \/ menu_callback(r)
    \/ Tick

SpecUsers ==
    /\ \E chs \in {{}, {channel_data(c) : c \in CH}}, us \in InitUsers, answer \in Answers :
          InitAnswered(chs, us, answer)
    /\ [][NextUsers]_vars

\* What users do while the operator bans and unbans them.
NextBan ==
    \/ \E r \in Reqs :
        \/ start_add_user(r)
        \/ start_welcome(r)
        \/ user_command(r)
        \/ menu_callback(r)
    \/ ban_user

SpecBan ==
    /\ \E us \in InitUsers, answer \in Answers :
          InitAnswered({channel_data(c) : c \in CH}, us, answer)
    /\ [][NextBan]_vars

\* The process from the import of config to its exit, for every way the
\* required settings can be present or absent.
NextBoot ==
    \/ load_config
    \/ start_bot
    \/ db_initialize
    \/ start_web_server
    \/ app_start
    \/ create_cleanup_task
    \/ idle
    \/ stop_bot

InitBoot ==
    /\ now = 0
    /\ channels = {}
    /\ links = {}
    /\ invites = {}
    /\ req = [r \in Reqs |-> Idle]
    /\ adm = [a \in Adms |-> Idle]
    /\ tasks = {}
    /\ sweeper = [wake_at |-> CLEANUP_SLEEP, last_at |-> -1, deleted_count |-> 0]
    /\ users = {}
    /\ store = [add_user |-> "rejected", unique_index |-> FALSE]
    /\ \E env \in Envs : proc = Booting(env)

SpecBoot == InitBoot /\ [][NextBoot]_vars

\* Link requests, revocation tasks and the sweeper as time passes.
SpecTime == InitRegistered /\ [][NextIssue \/ NextTimed]_vars

\* The same, where the clock keeps advancing, the sweeper's loop keeps
\* turning and the store does not refuse its delete forever.
SpecLive ==
    /\ SpecTime
    /\ WF_vars(Tick)
    /\ WF_vars(cleanup_task)
    /\ SF_vars(cleanup_turn(TRUE))

\* =============================================================== claims
\* The requests that minted an invite for channel c (request r mints invite r).
Minted(c) == {r \in Reqs : \E i \in invites : i.invite_link = r /\ i.channel_id = c}

LinksOf(c) == {l \in links : l.channel_id = c}

\* Request r went through with every external call succeeding: the link was
\* shown and its Link document is in the store.
Succeeded(r) ==
    /\ req[r].pc = "done" /\ req[r].result = "link_sent"
    /\ \E l \in links : l.invite_link = r

\* C1: issuance requests for the same channel that run interleaved and whose
\* calls all succeed leave one Link document each (is_active, uses = 0) and
\* total_joins higher by their number; while they run no increment is lost:
\* the counter is never below the number of requests that showed their link
\* and never above the number that minted and returned.
C1_ConcurrentIssuance ==
    \A ch \in channels :
        LET c == ch.channel_id
            shown == {r \in Minted(c) : req[r].result = "link_sent"}
            returned == {r \in Minted(c) : req[r].pc = "done"}
        IN  /\ Cardinality(shown) <= ch.total_joins
            /\ ch.total_joins <= Cardinality(returned)
            /\ (\A r \in Reqs : Succeeded(r)) =>
                 /\ Cardinality(LinksOf(c)) = Cardinality(Minted(c))
                 /\ ch.total_joins = Cardinality(Minted(c))
                 /\ \A l \in LinksOf(c) : l.is_active /\ l.uses = 0
                 /\ \A r \in Minted(c) : \E l \in LinksOf(c) : l.invite_link = r

\* Every request asked for channel -1 and every one succeeded.
C1_Witness ==
    /\ \A r \in Reqs : Succeeded(r)
    /\ Minted(-1) = Reqs
    /\ \E ch \in channels : ch.channel_id = -1 /\ ch.total_joins = MaxReq

\* C2: every Link document save_link wrote has expires_at = created_at + TTL
\* exactly, also when the clock advances between the steps of save_link.
C2_ExpiresExact ==
    \A l \in links : l.expires_at = l.created_at + LINK_EXPIRY_MINUTES

\* C3: a sweep pass that goes through at time now deletes every Link document
\* with expires_at < now and leaves every one with expires_at >= now as it
\* was, is_active or not; one with expires_at = now stays.
C3_SweepPass ==
    [][cleanup_turn(TRUE) =>
          /\ \A l \in links : l.expires_at < now => l \notin links'
          /\ \A l \in links : l.expires_at >= now => l \in links'
          /\ links' \subseteq links]_vars

\* The last pass deleted a document and one expiring exactly then is there.
C3_Witness ==
    /\ sweeper.last_at >= 0
    /\ sweeper.deleted_count > 0
    /\ \E l \in links : l.expires_at = sweeper.last_at /\ l.created_at < sweeper.last_at

\* C4: when remove_channel(c) has succeeded for a registered channel c, the
\* Channel document of c is gone and no Link document of c is there, and the
\* documents of the other channels are as they were: its delete_one takes
\* away the document of c only, its delete_many the links of c only.
C4_RemoveCascade ==
    [][\A a \in Adms :
          /\ (adm[a].pc = "idle" /\ adm'[a].pc = "rm_links") =>
                /\ \E ch \in channels : ch.channel_id = adm'[a].channel_id
                /\ channels' = {ch \in channels : ch.channel_id # adm'[a].channel_id}
                /\ links' = links
          /\ (adm[a].pc = "rm_links" /\ adm'[a].result = "removed") =>
                /\ \A ch \in channels' : ch.channel_id # adm[a].channel_id
                /\ \A l \in links' : l.channel_id # adm[a].channel_id
                /\ \A l \in links : l.channel_id # adm[a].channel_id => l \in links'
                /\ links' \subseteq links
                /\ channels' = channels]_vars

\* Channel -1 was removed after an invite was minted for it; a link of
\* channel -2 and channel -2 itself are still there.
C4_Witness ==
    /\ \E a \in Adms : adm[a].pc = "done" /\ adm[a].result = "removed"
    /\ \A ch \in channels : ch.channel_id = -2
    /\ channels # {}
    /\ \E r \in Minted(-1) : Succeeded(r) = FALSE /\ req[r].result = "link_sent"
    /\ LinksOf(-1) = {}
    /\ LinksOf(-2) # {}

\* C5: a revocation task calls revoke once and no more, not before its delay
\* has passed since it was scheduled, and whether or not the Link document
\* is still in the store: once the delay has passed nothing else holds it.
C5_RevokeOnce ==
    \A t \in tasks :
        /\ t.revoke_calls <= 1
        /\ t.state = "sleeping" => t.revoke_calls = 0
        /\ t.state = "done" =>
              /\ t.revoke_calls = 1
              /\ t.revoked_at >= t.due
        /\ (t.state = "sleeping" /\ now >= t.due) => ENABLED auto_revoke_and_delete(t)
        /\ \E i \in invites : i.invite_link = t.invite_link /\ i.channel_id = t.channel_id

\* Every request's Link document was deleted by one sweep pass, and a task
\* made its call after that pass, its Link document no longer in the store.
C5_Witness ==
    /\ sweeper.deleted_count = MaxReq
    /\ \E t \in tasks :
          /\ t.state = "done" /\ t.revoke_calls = 1
          /\ ~t.link_present
          /\ t.revoked_at >= sweeper.last_at

\* C6: every issuance that minted an invite and persisted its Link document,
\* on the deep-link path and on the channel-selection path, has scheduled a
\* revocation task for that invite by the time it returns.
C6_AlwaysScheduled ==
    \A r \in Reqs :
        (req[r].pc = "done" /\ \E l \in links : l.invite_link = r) =>
            \E t \in tasks : t.invite_link = r

\* C7: with the sweeper's loop turning and the store not refusing its delete
\* forever, a Link document whose expires_at has passed is deleted in the
\* end, also when no revocation task exists for its invite.
C7_EventuallySwept ==
    \A r \in Reqs :
        (\E l \in links : l.invite_link = r /\ l.expires_at < now)
            ~> ~(\E l \in links : l.invite_link = r)

\* Every request came through the channel selection, which schedules no
\* task, and one sweep pass deleted all their Link documents.
C7_Witness ==
    /\ \A r \in Reqs : req[r].kind = "cb" /\ req[r].result = "link_sent"
    /\ tasks = {}
    /\ sweeper.deleted_count = MaxReq
    /\ links = {}

\* What a requester reads as a failure of the request.
FailureMessages == {"failed_generate", "error_occurred", "something_wrong"}

C9_InactiveRefused ==
    \A ch \in channels :
        ~ch.is_active =>
            /\ Minted(ch.channel_id) = {}
            /\ LinksOf(ch.channel_id) = {}
            /\ ch.total_joins = 0

\* C10: a request whose channel has no Channel document when it is looked up
\* goes no further than the lookup, and a request that stops at the lookup
\* mints nothing, writes no Link document, changes no counter and schedules
\* no task; "not found" is answered only when some channel has no document.
C10_NotFound ==
    [][\A r \in Reqs :
          /\ (req[r].pc \in {"idle", "lookup"} /\ req'[r].pc # req[r].pc) =>
                /\ req'[r].pc \in {"reply", "lookup", "mint", "done"}
                /\ req'[r].pc = "mint" =>
                      \E ch \in channels : ch.channel_id = req'[r].channel_id
                /\ req'[r].pc = "done" =>
                      /\ invites' = invites /\ links' = links
                      /\ channels' = channels /\ tasks' = tasks
                /\ req'[r].result = "not_found" =>
                      \E c \in CH : \A ch \in channels : ch.channel_id # c
          /\ (req[r].pc = "mint" /\ req'[r].pc = "save") =>
                \E i \in invites' \ invites : i.invite_link = r]_vars

\* Channel -1 was removed, and a request was answered "not found" having
\* minted nothing.
C10_Witness ==
    /\ \A ch \in channels : ch.channel_id # -1
    /\ \E r \in Reqs :
          /\ req[r].pc = "done" /\ req[r].result = "not_found"
          /\ \A i \in invites : i.invite_link # r

C12_TagStripped ==
    \A r \in Reqs :
        req[r].pc \in {"reply", "lookup"} =>
            ~startswith_req(decode_argument(req[r].payload))

Allowed(uid) == uid = OWNER_ID \/ uid \in ADMIN_IDS

\* What an admin action leaves when it was let through.
LetThrough == {"added", "exists_or_failed", "failed_add", "removed",
               "not_found_or_failed", "usage", "invalid_id", "reply_needed",
               "broadcast_done", "shown"}

\* C14: a user is let through exactly when they are the owner or in the
\* admin list, for addchannel, removechannel, broadcast, the admin panel and
\* the admin statistics: none of them gets past the check, changes the
\* registry or is carried out for anyone else, and nobody who is allowed is
\* denied.
C14_Authorization ==
    [][\A a \in Adms :
          adm'[a] # adm[a] =>
              /\ adm'[a].kind \in {"add", "rm", "broadcast", "admin_panel", "admin_stats"}
              /\ adm'[a].result = "denied" => ~Allowed(adm'[a].uid)
              /\ ~Allowed(adm'[a].uid) =>
                    /\ adm'[a].pc = "done"
                    /\ adm'[a].result \notin LetThrough
                    /\ channels' = channels /\ links' = links]_vars

\* The owner's command went through, an admin's too, and the ordinary user
\* was denied, each in some run: here the admin removed a channel.
C14_Witness ==
    \E a \in Adms :
        /\ adm[a].pc = "done" /\ adm[a].uid \in ADMIN_IDS
        /\ adm[a].kind = "rm" /\ adm[a].result = "removed"

\* C15: removechannel by a user who is neither the owner nor an admin is
\* denied, for any argument, and every Channel and Link document is as it
\* was before.
C15_RemoveDenied ==
    [][\A a \in Adms :
          (adm[a].pc = "idle" /\ adm'[a].kind = "rm" /\ ~Allowed(adm'[a].uid)) =>
              /\ adm'[a].pc = "done"
              /\ adm'[a].result \in {"denied", "unhandled"}
              /\ channels' = channels /\ links' = links]_vars

\* The ordinary user's removechannel was denied with channels registered.
C15_Witness ==
    /\ \E a \in Adms :
          /\ adm[a].pc = "done" /\ adm[a].kind = "rm"
          /\ adm[a].uid = 3 /\ adm[a].result = "denied"
    /\ Cardinality(channels) = Cardinality(CH)

\* C16: an admin action invoked by a user who is not allowed changes no
\* document of any collection of the store.
C16_DeniedNoChange ==
    [][\A a \in Adms :
          (adm'[a] # adm[a] /\ ~Allowed(adm'[a].uid)) =>
              /\ channels' = channels /\ links' = links
              /\ users' = users]_vars

\* C17: addchannel by an admin with an argument that is not a number is
\* answered "Invalid channel ID" before the handler reaches get_chat, and
\* changes no document; the handler reaches get_chat with a number only.
C17_AddNonNumeric ==
    [][\A a \in Adms :
          /\ (adm'[a] # adm[a] /\ adm'[a].kind = "add" /\ adm'[a].result = "invalid_id") =>
                /\ adm[a].pc = "idle"
                /\ Allowed(adm'[a].uid)
                /\ channels' = channels /\ links' = links /\ users' = users
          /\ (adm'[a] # adm[a] /\ adm'[a].pc = "get_chat") =>
                /\ adm'[a].channel_id \in CH
                /\ Allowed(adm'[a].uid)
                /\ channels' = channels
          /\ (adm'[a] # adm[a] /\ adm'[a].kind = "add" /\ channels' # channels) =>
                adm[a].pc = "get_chat"]_vars

\* An admin's addchannel was answered "Invalid channel ID".
C17_Witness ==
    \E a \in Adms :
        /\ adm[a].pc = "done" /\ adm[a].kind = "add"
        /\ adm[a].result = "invalid_id" /\ adm[a].uid \in ADMIN_IDS

\* C18: a User record's joined_at is set when the user's first interaction
\* creates the record and keeps its value through every later add_user and
\* update_last_active of that user: a step of /start's add_user leaves a
\* record of the sender behind, and no step changes the joined_at of a
\* record or removes the record.
C18_JoinedAtKept ==
    [][/\ \A r \in Reqs :
            (req[r].pc = "idle" /\ req'[r].kind = "start")
                => \E v \in users' : v.user_id = req'[r].uid
       /\ \A u \in users :
            \E v \in users' : v.user_id = u.user_id /\ v.joined_at = u.joined_at]_vars

C20_JoinsCountLinks ==
    (\A r \in Reqs : req[r].pc \in {"idle", "done"}) =>
        \A ch \in channels : ch.total_joins = Cardinality(LinksOf(ch.channel_id))

\* C21: in a revocation task the revoke and the delete of the message are
\* independent and best-effort: the step of a task calls each once whatever
\* the other does, ends the task, changes no request's outcome (nobody is
\* told anything), no Channel and no Link document and no other task, and
\* touches the invites only by marking its own link revoked; a finished task
\* does nothing more, and no step takes a revocation back.
C21_BestEffort ==
    [][/\ \A t \in tasks :
            (t.state = "sleeping" /\ t \notin tasks') =>
                /\ \E u \in tasks' :
                      /\ tasks' = (tasks \ {t}) \cup {u}
                      /\ u.invite_link = t.invite_link /\ u.state = "done"
                      /\ u.revoke_calls = 1 /\ u.delete_calls = 1
                /\ req' = req /\ adm' = adm
                /\ channels' = channels /\ links' = links /\ sweeper' = sweeper
                /\ invites' \in {invites, revoke(invites, t.invite_link)}
       /\ \A t \in tasks : t.state = "done" => ~ENABLED auto_revoke_and_delete(t)
       /\ \A i \in invites :
            i.revoked => \E j \in invites' : j.invite_link = i.invite_link /\ j.revoked]_vars

\* Two tasks have run: the revoke of one failed and its message was deleted
\* all the same; the delete of the other failed and its invite is revoked.
C21_Witness ==
    \E t, u \in tasks :
        /\ t.state = "done" /\ u.state = "done"
        /\ t.message = "deleted" /\ t.delete_calls = 1
        /\ \E i \in invites : i.invite_link = t.invite_link /\ ~i.revoked
        /\ u.message = "shown" /\ u.revoke_calls = 1
        /\ \E i \in invites : i.invite_link = u.invite_link /\ i.revoked

\* A sweep pass failed: the pass made at last_at left a Link document behind
\* that had expired before it.
FailedPass == \E l \in links : l.expires_at < sweeper.last_at

\* C22: a sweep pass that fails does not stop the sweeper and disturbs
\* nothing else: the sweeper is always either asleep or able to make a pass;
\* a pass that deletes nothing changes only the sweeper's own state and
\* starts the next sleep; and after a failed pass passes are made until one
\* goes through and deletes what the failed one left.
C22_SweeperStaysAlive ==
    /\ [](now < sweeper.wake_at \/ ENABLED cleanup_task)
    /\ [][(sweeper' # sweeper /\ links' = links) =>
             /\ req' = req /\ adm' = adm /\ tasks' = tasks
             /\ channels' = channels /\ invites' = invites /\ users' = users
             /\ sweeper'.wake_at = Min(now + CLEANUP_SLEEP, MaxTime)]_vars
    /\ FailedPass ~> ~FailedPass

\* A pass has failed and the sweeper sleeps towards the next one.
C22_Witness ==
    /\ FailedPass
    /\ sweeper.last_at < MaxTime
    /\ now < sweeper.wake_at

\* C23: no request handler ends with an unhandled fault: whatever a store
\* operation or a chat-client call raises inside a handler is answered with
\* a message to the user.
C23_NoUnhandled ==
    /\ \A r \in Reqs : req[r].result # "unhandled"
    /\ \A a \in Adms : adm[a].result # "unhandled"

\* C24: with a required setting absent the process never serves: the
\* database is not initialized, the web server and the chat client are not
\* started, no sweeper task is created, and the process ends without a fault.
C24_NeverServes ==
    ~validate(proc.env) =>
        /\ ~proc.db_initialized /\ ~proc.web_started
        /\ ~proc.client_started /\ ~proc.cleanup_created
        /\ proc.fault = "none"

\* C25: in every reachable state at most one Channel record exists per
\* channel identifier.
C25_UniqueChannel ==
    \A c, d \in channels : c.channel_id = d.channel_id => c = d

ModeConsistent ==
    /\ \A i \in invites : \A l \in links :
          l.invite_link = i.invite_link =>
              (i.kind = "join_request" <=> l.link_type = "request")
    /\ \A r \in Reqs : \A i \in invites :
          (i.invite_link = r /\ req[r].pc \in {"save", "inc"}) =>
              /\ i.kind = (IF req[r].is_request_link THEN "join_request" ELSE "single_use")
              /\ req[r].kind = "cb" => i.kind = "single_use"

\* C27: the mode decides both the invite asked for and the record written:
\* a payload tagged req_ that carries a channel's encoding goes on, in
\* request mode, to ask for an approval-gated invite; an untagged payload
\* and a channel-list selection ask for a single-use invite; the invite
\* and the record of a request are of the same kind.
C27_ModeDecides ==
    /\ ModeConsistent
    /\ \A r \in Reqs :
          (req[r].pc \in {"reply", "lookup"}
                /\ req[r].payload.tag = "req_"
                /\ \E x \in CH : req[r].payload.body = encode_channel_id(x)) =>
              (req[r].pc = "lookup" /\ req[r].is_request_link)

\* C28: every Link record's channel_id refers to an existing Channel record,
\* also when a remove-channel request ran while an issuance request for
\* the channel was past its lookup: once every request and every admin
\* command has returned, no Link document is left without its channel.
C28_LinksHaveChannel ==
    ((\A r \in Reqs : req[r].pc \in {"idle", "done"})
        /\ (\A a \in Adms : adm[a].pc \in {"idle", "done"})) =>
        \A l \in links : \E ch \in channels : ch.channel_id = l.channel_id

\* C29: an issuance request that ends with "Failed to generate invite link"
\* has persisted no Link record, has not incremented total_joins in the
\* step that failed, and has left no minted invite without a revocation
\* task.
C29_FailedMeansNothingDone ==
    [][\A r \in Reqs :
          (req[r].pc # "done" /\ req'[r].result = "failed_generate") =>
              /\ channels' = channels
              /\ \A l \in links' : l.invite_link # r
              /\ \A i \in invites' :
                    i.invite_link = r => \E t \in tasks' : t.invite_link = r]_vars

\* C30: an addchannel request that ends reporting failure ("Failed to add
\* channel", "Channel already exists or failed to add") has left the
\* registry as it was.
C30_FailedAddNoChange ==
    [][\A a \in Adms :
          (adm[a].pc = "get_chat"
                /\ adm'[a].result \in {"failed_add", "exists_or_failed"}) =>
              channels' = channels]_vars

\* C31: remove_channel is all-or-nothing with respect to its result: a
\* removechannel request that ends with "Channel not found or failed to
\* remove" has deleted neither the Channel record nor any Link record, also
\* when the store fails between the deletion of the Channel record and the
\* cascade deletion of its Link records.
C31_FalseMeansNothingDeleted ==
    [][\A a \in Adms :
          (adm[a].pc # "done" /\ adm'[a].kind = "rm"
                /\ adm'[a].result = "not_found_or_failed") =>
              /\ adm[a].pc # "rm_links"        \* this call has deleted no Channel
              /\ channels' = channels
              /\ links' = links]_vars

C33_RevokedNotActive ==
    \A t \in tasks : \A i \in invites : \A l \in links :
        (t.state = "done" /\ i.invite_link = t.invite_link /\ i.revoked
              /\ l.invite_link = i.invite_link) =>
            /\ ~l.is_active
            /\ l \notin active_links(links, now)
            /\ l \notin get_active_link(links, l.channel_id, now)

====
